---- MODULE Spec2Model ----
(***************************************************************************)
(* Model of Image_classification_app.py: the Streamlit page that loads a   *)
(* TFLite classifier once, preprocesses an uploaded ultrasound image and   *)
(* shows a PCOS label with a confidence.                                   *)
(*                                                                         *)
(* Three specifications share the variables:                               *)
(*   Spec            the page: one action per user interaction, each one   *)
(*                   running the whole script (main) on the widget state;  *)
(*   SpecPreprocess  preprocess_image applied to a bounded set of images;  *)
(*   SpecResult      the decision rule and the confidence line applied to  *)
(*                   every probability of a dyadic grid.                   *)
(***************************************************************************)
EXTENDS Integers, Sequences, FiniteSets, TLC

VARIABLES
    cache,          \* st.cache_resource entry of load_tflite_model, None until set
    load_count,     \* number of times the body of load_tflite_model ran
    handle,         \* value load_tflite_model returned to the latest run of main
    uploaded_file,  \* value of the file_uploader widget (None or a file)
    check_button,   \* value of the button in the latest run of the script
    screen,         \* elements rendered by the latest run
    shown,          \* the result block rendered by the latest run, or None
    calls,          \* pipeline calls made by the latest run, in order
    runtime,        \* what the interpreter did in the latest run
    raised,         \* exception that escaped main in the latest run, or None
    image,          \* argument of preprocess_image (SpecPreprocess)
    img_array,      \* value returned by preprocess_image (SpecPreprocess)
    probability,    \* probability returned by predict_pcos_tflite, or None
    result          \* label returned by predict_pcos_tflite, or None

vars == <<cache, load_count, handle, uploaded_file, check_button, screen, shown,
          calls,
          runtime, raised, image, img_array, probability, result>>

\* Optional values are sequences of length at most one.
None == <<>>
Some(x) == <<x>>

(***************************************************************************)
(* Bounds of the model.                                                    *)
(***************************************************************************)
\* largest width and height of an input image of SpecPreprocess
MaxW == 2
MaxH == 1
\* probabilities are the dyadic rationals k / 2^ProbBits, 0 <= k <= 2^ProbBits
ProbBits == 16

(***************************************************************************)
(* Images (PIL.Image): a mode, a size <<w, h>> and h rows of w pixels,     *)
(* each pixel a tuple of 8-bit band values.                                *)
(***************************************************************************)
Bands(mode) == CASE mode = "L" -> 1 [] mode = "RGB" -> 3 [] mode = "RGBA" -> 4

\* ITU-R 601-2 luma transform of Image.convert('L'), in 16-bit fixed point
L24(px) == (px[1] * 19595 + px[2] * 38470 + px[3] * 7471 + 32768) \div 65536

\* image.convert('L')
convert_L(im) ==
    IF im.mode = "L" THEN im
    ELSE [mode |-> "L", size |-> im.size,
          px |-> [y \in 1..im.size[2] |-> [x \in 1..im.size[1] |->
                    <<L24(im.px[y][x])>>]]]

\* Image.merge('RGB', (a, b, c)) of three single-band images of one size
merge_RGB(a, b, c) ==
    [mode |-> "RGB", size |-> a.size,
     px |-> [y \in 1..a.size[2] |-> [x \in 1..a.size[1] |->
                <<a.px[y][x][1], b.px[y][x][1], c.px[y][x][1]>>]]]

\* image.resize(target_size): every band is resampled alike and stays 8-bit;
\* the library's filter is represented by sampling the source pixel under the
\* centre of each target pixel.
resize(im, target_size) ==
    LET w  == im.size[1]
        h  == im.size[2]
        tw == target_size[1]
        th == target_size[2]
    IN [mode |-> im.mode, size |-> target_size,
        px |-> [y \in 1..th |-> [x \in 1..tw |->
                 im.px[(((2 * y - 1) * h) \div (2 * th)) + 1]
                      [(((2 * x - 1) * w) \div (2 * tw)) + 1]]]]

(***************************************************************************)
(* Arrays (numpy.ndarray): a dtype, a shape and the elements in row-major  *)
(* order.  The element at i is the rational data[i] / den.                 *)
(***************************************************************************)
\* np.array(image): (h, w) for a single-band image, (h, w, bands) otherwise
np_array(im) ==
    LET w == im.size[1]
        h == im.size[2]
        b == Bands(im.mode)
    IN [dtype |-> "uint8", den |-> 1,
        shape |-> IF b = 1 THEN <<h, w>> ELSE <<h, w, b>>,
        data  |-> [i \in 1..(h * w * b) |->
                     im.px[((i - 1) \div (w * b)) + 1]
                          [(((i - 1) \div b) % w) + 1]
                          [((i - 1) % b) + 1]]]

\* np.expand_dims(a, axis=0)
expand_dims0(a) == [a EXCEPT !.shape = <<1>> \o a.shape]

\* a / 255.0
div255(a) == [a EXCEPT !.dtype = "float64", !.den = a.den * 255]

target_size == <<224, 224>>

\* preprocess_image(image, target_size=(224, 224))
preprocess_image(im) ==
    LET gray    == IF im.mode # "L"
                   THEN LET l == convert_L(im) IN merge_RGB(l, l, l)
                   ELSE im
        resized == resize(gray, target_size)
    IN div255(expand_dims0(np_array(resized)))

(***************************************************************************)
(* Probabilities: the dyadic rationals k / 2^ProbBits, as a float is; the  *)
(* number k stands for k / 2^ProbBits.                                     *)
(***************************************************************************)
One  == 2 ^ ProbBits
Half == 2 ^ (ProbBits - 1)
Grid == 0..One

\* the grid value nearest to n / d (what a literal such as 0.2 denotes)
Nearest(n, d) == (2 * n * One + d) \div (2 * d)

\* the input tensor the model artifact was built for
InputShape == <<1, 224, 224, 3>>

\* One execution of the interpreter: it raises, or leaves a probability in
\* the output slot.
Runs == [raises : {TRUE}, output : {0}] \cup [raises : {FALSE}, output : Grid]

\* the rule with the boundary on the other side
Decide_AtLeast(p) == IF p >= Half THEN "PCOS Negative" ELSE "PCOS Positive"

\* probability > 0.5
Decide(p) == IF p > Half THEN "PCOS Negative" ELSE "PCOS Positive"

PredictCatches_Nothing(err) == FALSE

\* try: ... except Exception of predict_pcos_tflite: every error of the body
\* is caught
PredictCatches(err) == TRUE

\* predict_pcos_tflite(interpreter, image_array), given what the interpreter
\* does: <<result, probability>>, the st.error message and the exception
\* that leaves the function.
predict_pcos_tflite(interpreter, image_array, run) ==
    LET err == \/ interpreter = None          \* None has no get_input_details
               \/ image_array.shape # InputShape   \* set_tensor: dimension mismatch
               \/ run.raises
    IN IF err
       THEN IF PredictCatches(err)
            THEN [result |-> None, probability |-> None,
                  msgs |-> {"prediction_error"}, exc |-> None, state |-> "raised"]
            ELSE [result |-> None, probability |-> None,
                  msgs |-> {}, exc |-> Some("RuntimeError"), state |-> "raised"]
       ELSE [result |-> Some(Decide(run.output)), probability |-> Some(run.output),
             msgs |-> {}, exc |-> None, state |-> "returned"]

\* round(n / d) to the nearest integer, ties to even
RoundHalfEven(n, d) ==
    LET q == n \div d
        r == n % d
    IN IF 2 * r < d THEN q
       ELSE IF 2 * r > d THEN q + 1
       ELSE IF q % 2 = 0 THEN q ELSE q + 1

Abs(x) == IF x < 0 THEN -x ELSE x

\* the distance without abs
Confidence_NoAbs(p) == (p - Half) * 2

\* abs(probability - 0.5) * 2, as a numerator over One
Confidence(p) == Abs(p - Half) * 2

\* f"{x:.2%}": x as a percentage with two decimals, counted in hundredths of
\* a percent ("60.00%" is 6000)
FormatPercent2(num) == RoundHalfEven(num * 10000, One)

\* the result block of main: colour, label and confidence line
ResultBlock(res, p) ==
    [label |-> res,
     color |-> IF res = "PCOS Positive" THEN "red" ELSE "green",
     confidence |-> FormatPercent2(Confidence(p))]

(***************************************************************************)
(* The images of the files uploaded in Spec, and their tensors: the table  *)
(* holds preprocess_image(im) for each of them, computed once.             *)
(***************************************************************************)
NoImage == [mode |-> "none", size |-> <<0, 0>>, px |-> <<>>]
NoArray == [dtype |-> "none", den |-> 1, shape |-> <<>>, data |-> <<>>]

Pixel1x1(mode, p) == [mode |-> mode, size |-> <<1, 1>>, px |-> <<<<p>>>>]

SampleImages == {Pixel1x1("L", <<130>>), Pixel1x1("RGB", <<130, 130, 130>>),
                 Pixel1x1("RGB", <<200, 30, 40>>), Pixel1x1("RGBA", <<9, 80, 250, 128>>)}

Preprocessed == [im \in SampleImages |-> preprocess_image(im)]

(***************************************************************************)
(* The script.  Streamlit runs main from the top on every interaction; the *)
(* widget values and the resource cache are what survives between runs.    *)
(***************************************************************************)
\* 10 * 1024 * 1024, the 10MB limit
MaxUploadSize == 10 * 1024 * 1024

\* the limit taken as exclusive
SizeExceeds_AtLeast(f) == f.size >= MaxUploadSize

\* uploaded_file.size > 10 * 1024 * 1024
SizeExceeds(f) == f.size > MaxUploadSize

\* body of load_tflite_model: the n-th interpreter built, or None with an
\* error message when Interpreter(...) or allocate_tensors() raises
LoadBody(ok, n) ==
    IF ok THEN [value |-> Some([id |-> n]), msgs |-> {}]
    ELSE [value |-> None, msgs |-> {"load_error"}]

\* the function without its decorator
CacheHit_Never(c) == FALSE

\* @st.cache_resource: the entry is set by the first call and kept
CacheHit(c) == c # None

load_tflite_model(c, n, ok) ==
    IF CacheHit(c)
    THEN [value |-> c[1], cache |-> c, count |-> n, msgs |-> {}]
    ELSE LET b == LoadBody(ok, n + 1)
         IN [value |-> b.value, cache |-> Some(b.value), count |-> n + 1,
             msgs |-> b.msgs]

\* main without the check of the handle
ModelAbsent_Never(interpreter) == FALSE

\* if interpreter is None
ModelAbsent(interpreter) == interpreter = None

\* Image.open(uploaded_file): the image, or the exception of an unreadable file
Image_open(f) ==
    IF f.valid THEN [image |-> Some(f.img), exc |-> None]
    ELSE [image |-> None, exc |-> Some("UnidentifiedImageError")]

\* the analysis outside the if
Triggered_Always(btn) == TRUE

\* if check_button
Triggered(btn) == btn

\* a handler for ValueError alone
MainCatches_ValueError(exc) == exc = Some("ValueError")

\* except Exception as e, of main: every exception of the try block
MainCatches(exc) == TRUE

Handle(b, exc) ==
    IF MainCatches(exc)
    THEN [b EXCEPT !.screen = @ \cup {"processing_error", "valid_image_hint"}]
    ELSE [b EXCEPT !.raised = exc]

\* if result: the result block
Render(b, pr) ==
    IF pr.result # None
    THEN [b EXCEPT !.screen = @ \cup {"result"},
                   !.shown = Some(ResultBlock(pr.result[1], pr.probability[1]))]
    ELSE b

\* the try block of main
TryBlock(base, interpreter, f, btn, run) ==
    LET opened == Image_open(f)
        b0     == [base EXCEPT !.calls = <<"Image.open">>]
    IN IF opened.exc # None THEN Handle(b0, opened.exc)
       ELSE LET b1 == [b0 EXCEPT !.screen = @ \cup {"image"}]
            IN IF ~Triggered(btn) THEN b1
               ELSE LET processed_image == Preprocessed[opened.image[1]]
                        pr == predict_pcos_tflite(interpreter, processed_image, run)
                        b2 == [b1 EXCEPT
                                 !.calls = @ \o <<"preprocess_image", "predict_pcos_tflite">>,
                                 !.runtime = pr.state,
                                 !.screen = @ \cup pr.msgs,
                                 !.probability = pr.probability,
                                 !.result = pr.result]
                    IN IF pr.exc # None THEN Handle(b2, pr.exc)
                       ELSE Render(b2, pr)

\* main(): one run of the script on cache c (n loads so far), the widget
\* values uf and btn, the outcome ok of a load and run of an inference
main(c, n, uf, btn, ok, run) ==
    LET ld   == load_tflite_model(c, n, ok)
        base == [cache |-> ld.cache, load_count |-> ld.count,
                 handle |-> ld.value, screen |-> ld.msgs,
                 shown |-> None, calls |-> <<>>, runtime |-> "not_run",
                 raised |-> None, probability |-> None, result |-> None]
    IN IF ModelAbsent(ld.value)
       THEN [base EXCEPT !.screen = @ \cup {"model_failed"}]
       ELSE IF uf # None
            THEN IF SizeExceeds(uf[1])
                 THEN [base EXCEPT !.screen = @ \cup {"oversize_error"}]
                 ELSE TryBlock(base, ld.value, uf[1], btn, run)
            ELSE [base EXCEPT !.screen = @ \cup {"placeholder"}]

(***************************************************************************)
(* Spec: the page under user interactions.                                 *)
(***************************************************************************)
FileSizes == {1, MaxUploadSize - 1, MaxUploadSize, MaxUploadSize + 1}

Files == [size : FileSizes, valid : {TRUE}, img : SampleImages]
           \cup [size : FileSizes, valid : {FALSE}, img : {NoImage}]

\* the probabilities an inference of Spec leaves in the output slot
SampleProbabilities ==
    {0, Nearest(1, 5), Half - 1, Half, Half + 1, Nearest(3, 4), One}

SampleRuns == [raises : {TRUE}, output : {0}]
                \cup [raises : {FALSE}, output : SampleProbabilities]

Init ==
    /\ cache = None
    /\ load_count = 0
    /\ handle = None
    /\ uploaded_file = None
    /\ check_button = FALSE
    /\ screen = {}
    /\ shown = None
    /\ calls = <<>>
    /\ runtime = "not_run"
    /\ raised = None
    /\ image = NoImage
    /\ img_array = NoArray
    /\ probability = None
    /\ result = None

\* one run of the script with the widget values uf and btn
Rerun(uf, btn) ==
    \E ok \in BOOLEAN, run \in SampleRuns :
        LET m == main(cache, load_count, uf, btn, ok, run)
        IN /\ uploaded_file' = uf
           /\ check_button' = btn
           /\ cache' = m.cache
           /\ load_count' = m.load_count
           /\ handle' = m.handle
           /\ screen' = m.screen
           /\ shown' = m.shown
           /\ calls' = m.calls
           /\ runtime' = m.runtime
           /\ raised' = m.raised
           /\ probability' = m.probability
           /\ result' = m.result
           /\ UNCHANGED <<image, img_array>>

\* a browser opens (or reloads) the page: a session with fresh widgets
OpenPage == Rerun(None, FALSE)

PageOpen == screen # {} \/ raised # None

\* the user picks a file in the uploader
Upload == PageOpen /\ \E f \in Files : Rerun(Some(f), FALSE)

\* the user removes the file from the uploader
ClearUpload == PageOpen /\ uploaded_file # None /\ Rerun(None, FALSE)

\* the user presses "Check for PCOS"
ClickCheck == PageOpen /\ Rerun(uploaded_file, TRUE)

Next == OpenPage \/ Upload \/ ClearUpload \/ ClickCheck

Spec == Init /\ [][Next]_vars

(***************************************************************************)
(* SpecPreprocess: preprocess_image on every image of the bounded set.     *)
(***************************************************************************)
GrayLevels == {0, 130, 255}
Colours    == {<<v, v, v>> : v \in GrayLevels} \cup {<<200, 30, 40>>}

PixelsOf(mode) ==
    CASE mode = "L"    -> {<<v>> : v \in GrayLevels}
      [] mode = "RGB"  -> Colours
      [] mode = "RGBA" -> {c \o <<128>> : c \in Colours}

Images ==
    UNION {UNION {UNION {
        {[mode |-> m, size |-> <<w, h>>, px |-> p] :
            p \in [1..h -> [1..w -> PixelsOf(m)]]}
        : h \in 1..MaxH} : w \in 1..MaxW} : m \in {"L", "RGB", "RGBA"}}

InitPreprocess ==
    /\ image \in Images
    /\ img_array = NoArray
    /\ cache = None
    /\ load_count = 0
    /\ handle = None
    /\ uploaded_file = None
    /\ check_button = FALSE
    /\ screen = {}
    /\ shown = None
    /\ calls = <<>>
    /\ runtime = "not_run"
    /\ raised = None
    /\ probability = None
    /\ result = None

Preprocess ==
    /\ calls = <<>>
    /\ img_array' = preprocess_image(image)
    /\ calls' = <<"preprocess_image">>
    /\ UNCHANGED <<cache, load_count, handle, uploaded_file, check_button, screen,
                   shown,
                   runtime, raised, image, probability, result>>

NextPreprocess == Preprocess

SpecPreprocess == InitPreprocess /\ [][NextPreprocess]_vars

(***************************************************************************)
(* SpecResult: the decision rule and the result block on every probability *)
(* of the grid.                                                            *)
(***************************************************************************)
Predict ==
    /\ calls = <<>>
    /\ \E run \in Runs :
         LET pr == predict_pcos_tflite(Some([id |-> 1]),
                                       [NoArray EXCEPT !.shape = InputShape], run)
         IN /\ result' = pr.result
            /\ probability' = pr.probability
            /\ runtime' = pr.state
            /\ screen' = pr.msgs
            /\ raised' = pr.exc
    /\ calls' = <<"predict_pcos_tflite">>
    /\ UNCHANGED <<cache, load_count, handle, uploaded_file, check_button, shown, image,
                   img_array>>

ShowResult ==
    /\ calls = <<"predict_pcos_tflite">>
    /\ raised = None
    /\ LET b == Render([screen |-> screen, shown |-> shown],
                       [result |-> result, probability |-> probability])
       IN /\ screen' = b.screen
          /\ shown' = b.shown
    /\ calls' = calls \o <<"render">>
    /\ UNCHANGED <<cache, load_count, handle, uploaded_file, check_button, runtime, raised,
                   image, img_array, probability, result>>

NextResult == Predict \/ ShowResult

SpecResult == Init /\ [][NextResult]_vars

(***************************************************************************)
(* Properties.                                                             *)
(***************************************************************************)
Count(seq, x) == Cardinality({i \in DOMAIN seq : seq[i] = x})

ModelLoaded == cache # None /\ cache[1] # None
ModelFailed == cache = Some(None)
HasUpload   == uploaded_file # None
WithinLimit == HasUpload /\ uploaded_file[1].size <= MaxUploadSize
ValidUpload == WithinLimit /\ uploaded_file[1].valid

\* the states of the interaction cycle, read off the rendered page
Idle        == "placeholder" \in screen
ImageLoaded == "image" \in screen /\ runtime = "not_run"
ResultReady == "result" \in screen
Failed      == "prediction_error" \in screen
Analyzed    == "predict_pcos_tflite" \in {calls[i] : i \in DOMAIN calls}
Decoded     == "Image.open" \in {calls[i] : i \in DOMAIN calls}

\* C1: for every valid image of any mode and size, preprocess_image returns
\* a tensor of shape (1,224,224,3) with every element in [0.0, 1.0].
C1_TensorShapeAndRange ==
    calls = <<"preprocess_image">> =>
        /\ img_array.shape = <<1, 224, 224, 3>>
        /\ \A i \in DOMAIN img_array.data :
              0 <= img_array.data[i] /\ img_array.data[i] <= img_array.den

\* C2: a grayscale image G and the RGB image whose three channels each equal
\* G are preprocessed to the same tensor.
C2_GrayscaleInsensitive ==
    (calls = <<"preprocess_image">> /\ image.mode = "L") =>
        img_array = preprocess_image(merge_RGB(image, image, image))

\* C3: the label is 'PCOS Negative' exactly when p > 0.5 and 'PCOS Positive'
\* otherwise: p = 0.5 gives Positive, the next p above 0.5 gives Negative;
\* a result that is present is one of the two labels.
C3_DecisionRule ==
    result # None =>
        /\ probability # None
        /\ result[1] \in {"PCOS Negative", "PCOS Positive"}
        /\ (result[1] = "PCOS Negative") <=> (2 * probability[1] > One)
        /\ probability[1] = Half => result[1] = "PCOS Positive"
        /\ probability[1] = Half + 1 => result[1] = "PCOS Negative"

C3_Witness ==
    /\ probability = Some(Half)
    /\ result = Some("PCOS Positive")

\* C4: the confidence shown is abs(p - 0.5) * 2 as a percentage with two
\* decimals: 0% at 0.5, 100% at 0.0 and 1.0, 50% at 0.75, the same for p and
\* 1 - p, always within [0%, 100%]; with p = 0.2 the page shows
\* 'PCOS Positive' and 60.00%.
C4_Confidence ==
    shown # None =>
        LET p == probability[1]
            c == shown[1].confidence
        IN /\ 0 <= c /\ c <= 10000
           \* c / 10000 is abs(p - 0.5) * 2 to within half a unit of the last digit
           /\ 2 * Abs(c * One - 10000 * Abs(2 * p - One)) <= One
           /\ p = Half => c = 0
           /\ p \in {0, One} => c = 10000
           /\ p = Nearest(3, 4) => c = 5000
           /\ c = FormatPercent2(Confidence(One - p))
           /\ p = Nearest(1, 5) => (shown[1].label = "PCOS Positive" /\ c = 6000)

C4_Witness ==
    /\ shown # None
    /\ probability = Some(Nearest(1, 5))
    /\ shown[1].label = "PCOS Positive"
    /\ shown[1].confidence = 6000

\* C5 (as claimed): in every interaction with an upload of size s, s above
\* 10,485,760 shows the oversize error and runs no decoding, preprocessing or
\* inference; s up to 10,485,760 proceeds to decoding.
C5_SizeCeilingEveryInteraction ==
    HasUpload =>
        IF uploaded_file[1].size > 10485760
        THEN "oversize_error" \in screen /\ calls = <<>>
        ELSE Decoded

\* C5 (amended): in every interaction in which the model is loaded, an upload
\* above 10,485,760 bytes shows the oversize error and runs no decoding,
\* preprocessing or inference, also with the trigger fired; an upload of up
\* to 10,485,760 bytes proceeds to decoding.
C5_SizeCeilingWhenLoaded ==
    (HasUpload /\ ModelLoaded) =>
        IF uploaded_file[1].size > 10485760
        THEN "oversize_error" \in screen /\ calls = <<>> /\ runtime = "not_run"
        ELSE Decoded

C5_Witness ==
    /\ ModelLoaded
    /\ HasUpload
    /\ uploaded_file[1].size = 10485761
    /\ check_button
    /\ "oversize_error" \in screen

\* C6: once the load has failed, every interaction reports the load failure
\* and attempts no decoding, preprocessing or inference, whatever the upload
\* and the trigger; the absent handle never reaches the predictor.
C6_LoadFailureBlocks ==
    /\ [](ModelFailed => /\ "model_failed" \in screen
                         /\ calls = <<>>
                         /\ runtime = "not_run"
                         /\ shown = None)
    /\ [](Analyzed => handle # None)
    /\ [][ModelFailed => ModelFailed']_vars

C6_Witness ==
    /\ ModelFailed
    /\ ValidUpload
    /\ check_button
    /\ "model_failed" \in screen

\* C7: the model is loaded at most once; after the first call every
\* interaction gets the memoized value, inference always uses that one
\* handle and no interaction replaces it.
C7_LoadedOnce ==
    /\ [](load_count <= 1)
    /\ [](handle # None => handle[1].id = 1)
    /\ [][cache # None => (cache' = cache /\ load_count' = load_count
                           /\ handle' = cache[1])]_vars

C7_Witness ==
    /\ load_count = 1
    /\ Analyzed
    /\ runtime = "returned"
    /\ handle = Some([id |-> 1])

\* C8: a runtime error in the predictor is caught there, reported as a
\* prediction failure and gives no result: no label and no confidence are
\* rendered; never both a result block and a prediction failure.
C8_PredictionFailure ==
    /\ runtime = "raised" =>
          /\ "prediction_error" \in screen
          /\ result = None /\ probability = None
          /\ shown = None /\ "result" \notin screen
          /\ raised = None
    /\ ~("result" \in screen /\ "prediction_error" \in screen)
    /\ shown # None <=> "result" \in screen

C8_Witness ==
    /\ runtime = "raised"
    /\ ValidUpload
    /\ uploaded_file[1].img.mode = "RGB"
    /\ "prediction_error" \in screen

\* C9: the interaction cycle.  Analysis runs only with the model loaded, an
\* upload present, within the limit and decoded, and the trigger fired; a
\* trigger in Idle analyses nothing and shows the placeholder; an upload
\* without trigger runs no inference; a trigger causes at most one inference;
\* from ResultReady or Failed a trigger analyses again; clearing the upload
\* returns to Idle.
C9_InteractionCycle ==
    /\ [](Analyzed => /\ ModelLoaded /\ handle # None
                      /\ ValidUpload /\ check_button
                      /\ "image" \in screen
                      /\ (ResultReady \/ Failed))
    /\ [](~check_button => (~Analyzed /\ runtime = "not_run"))
    /\ [](/\ Count(calls, "predict_pcos_tflite") <= 1
          /\ Count(calls, "preprocess_image") <= 1)
    /\ [][(Idle /\ check_button') => (Idle' /\ calls' = <<>>)]_vars
    /\ [][(Idle /\ ~check_button' /\ ValidUpload') => ImageLoaded']_vars
    /\ [][(ImageLoaded /\ check_button') => Analyzed']_vars
    /\ [][((ResultReady \/ Failed) /\ check_button') => Analyzed']_vars
    /\ [][((ImageLoaded \/ ResultReady \/ Failed) /\ ~HasUpload') => Idle']_vars

C9_Witness ==
    /\ ResultReady
    /\ Analyzed
    /\ check_button
    /\ calls = <<"Image.open", "preprocess_image", "predict_pcos_tflite">>

\* an error message of a recoverable failure is on the page
ErrorShown == \/ "oversize_error" \in screen
              \/ "processing_error" \in screen
              \/ "prediction_error" \in screen

====
